---------------------------- MODULE Spec2Model ----------------------------
(***************************************************************************)
(* Station gateway: the binary frame codec (internal/protocol) and the     *)
(* connection / registry / HTTP tasks of main.go.                          *)
(*                                                                         *)
(* Bytes are integers 0..255, byte slices are sequences (Go index i is     *)
(* TLA+ index i+1), Go strings are sequences of bytes ("" is <<>>), and a  *)
(* nil slice is <<>> (no reply the code builds is ever empty).             *)
(***************************************************************************)
EXTENDS Integers, Sequences, FiniteSets, TLC

(***************************************************************************)
(* Bounds of the model.                                                    *)
(***************************************************************************)
\* number of station connections accepted by startTCPServer
NumConns == 2
\* number of frames (or read errors) a peer delivers on one connection
MaxReads == 2
\* number of HTTP requests (each one a /send or a /stations request)
NumHttp == 2

\* capacity of the per-connection read buffer kept by the model; it stands
\* for make([]byte, 1024): long enough for every frame of the model
BufCap == 24

Nil == <<>>

(***************************************************************************)
(* Byte arithmetic.                                                        *)
(***************************************************************************)
RECURSIVE BitXor(_, _)
BitXor(a, b) ==
    IF a = 0 THEN b
    ELSE IF b = 0 THEN a
    ELSE (((a % 2) + (b % 2)) % 2) + 2 * BitXor(a \div 2, b \div 2)

\* binary.BigEndian.Uint16
Uint16(hi, lo) == hi * 256 + lo

\* binary.Write(buf, binary.BigEndian, uint16(v))
PutUint16(v) == << ((v % 65536) \div 256), (v % 256) >>

\* data[lo:] of a slice of length Len(data)
From(data, lo) == SubSeq(data, lo + 1, Len(data))

\* data[lo:hi]
Slice(data, lo, hi) == SubSeq(data, lo + 1, hi)

RECURSIVE xorFrom(_, _, _)
xorFrom(data, i, chk) ==
    IF i > Len(data) THEN chk ELSE xorFrom(data, i + 1, BitXor(chk, data[i]))

\* func xorChecksum(data []byte) byte
xorChecksum(data) == xorFrom(data, 1, 0)

\* a validation that compares the checksum byte with the XOR of everything
\* after it (token included)
validateChecksumFromToken(data) ==
    IF Len(data) < 5 THEN FALSE ELSE data[5] = xorChecksum(From(data, 5))

\* func validateChecksum(data []byte) bool
validateChecksum(data) ==
    IF Len(data) < 5 THEN FALSE
    ELSE IF Len(data) > 9 THEN data[5] = xorChecksum(From(data, 9))
    ELSE data[5] = 0

(***************************************************************************)
(* HandleIncoming(data []byte) ([]byte, string).                           *)
(*                                                                         *)
(* arr is the backing array of the slice from its first element up to its  *)
(* capacity and n is the slice's length: data = arr[:n].  The result is    *)
(* [panic, resp, id]; panic is a Go run-time panic (slice bounds out of    *)
(* range), which no caller recovers.                                       *)
(***************************************************************************)
Result(resp, id) == [panic |-> FALSE, resp |-> resp, id |-> id]

Panic == [panic |-> TRUE, resp |-> Nil, id |-> <<>>]

\* a reply whose length field counts the whole frame
ReplyTotalLength(packLen, cmd, token, payload) ==
    PutUint16(9 + Len(payload)) \o <<cmd, 1, xorChecksum(payload)>> \o token \o payload

\* the reply frames: length field, Cmd, Version 0x01, CheckSum recomputed
\* over respBytes[9:], Token, payload
Reply(packLen, cmd, token, payload) ==
    PutUint16(packLen) \o <<cmd, 1, xorChecksum(payload)>> \o token \o payload

\* the "pad with 0x00 / cut to exactly 8 bytes" blocks of the power bank ids
Pad8(id) ==
    IF Len(id) < 8 THEN id \o [i \in 1..(8 - Len(id)) |-> 0]
    ELSE IF Len(id) > 8 THEN SubSeq(id, 1, 8)
    ELSE id

\* []byte("RL1A|00d")
RentPowerBankID == <<82, 76, 49, 65, 124, 48, 48, 100>>
\* []byte("RL1H|001"), []byte("RL1H|003")
PowerBank1ID == <<82, 76, 49, 72, 124, 48, 48, 49>>
PowerBank3ID == <<82, 76, 49, 72, 124, 48, 48, 51>>
\* []byte("RL1,H6,08,14") with the null terminator appended
FwVersionBytes == <<82, 76, 49, 44, 72, 54, 44, 48, 56, 44, 49, 52, 0>>
\* []byte("89860416121880245965") with the null terminator appended
IccidBytes ==
    <<56, 57, 56, 54, 48, 52, 49, 54, 49, 50, 49, 56, 56, 48, 50, 52, 53, 57, 54, 53, 0>>

\* case 0x60: the extraction of stationID; "panic" when the slice expression
\* data[17 : 17+boxIDLen] is out of range (17+boxIDLen is uint16 arithmetic)
LoginStationID(data) ==
    IF Len(data) >= 21
    THEN LET boxIDLen == Uint16(data[16], data[17])
             end16 == (17 + boxIDLen) % 65536
         IN  IF Len(data) >= end16
             THEN IF end16 < 17
                  THEN [panic |-> TRUE, id |-> <<>>]
                  ELSE LET boxIDBytes == Slice(data, 17, end16)
                       IN  IF Len(boxIDBytes) > 0 /\ boxIDBytes[Len(boxIDBytes)] = 0
                           THEN [panic |-> FALSE,
                                 id |-> SubSeq(boxIDBytes, 1, Len(boxIDBytes) - 1)]
                           ELSE [panic |-> FALSE, id |-> boxIDBytes]
             ELSE [panic |-> FALSE, id |-> <<>>]
    ELSE [panic |-> FALSE, id |-> <<>>]

\* the switch on cmd, once the checksum is validated and token is sliced
Dispatch(data, token) ==
    LET cmd == data[3] IN
    CASE cmd = 96 ->                                       \* 0x60 Login
           LET l == LoginStationID(data)
           IN  IF l.panic THEN Panic
               ELSE Result(Reply(8, 96, token, <<1>>), l.id)
      [] cmd = 97 -> Result(data, <<>>)                    \* 0x61 Heartbeat
      [] cmd = 102 ->                                      \* 0x66 Return
           IF Len(data) >= 18
           THEN Result(Reply(9, 102, token, <<data[10], 1>>), <<>>)
           ELSE Result(Nil, <<>>)
      [] cmd = 98 ->                                       \* 0x62 Query fw
           Result(Reply(7 + 2 + Len(FwVersionBytes), 98, token,
                        PutUint16(Len(FwVersionBytes)) \o FwVersionBytes), <<>>)
      [] cmd = 101 ->                                      \* 0x65 Rent
           IF Len(data) >= 10
           THEN Result(Reply(17, 101, token,
                             <<data[10], 1>> \o Pad8(RentPowerBankID)), <<>>)
           ELSE Result(Nil, <<>>)
      [] cmd = 128 ->                                      \* 0x80 Eject
           IF Len(data) >= 10
           THEN Result(Reply(17, 128, token,
                             <<data[10], 1>> \o Pad8(RentPowerBankID)), <<>>)
           ELSE Result(Nil, <<>>)
      [] cmd = 105 ->                                      \* 0x69 Query ICCID
           Result(Reply(7 + 2 + Len(IccidBytes), 105, token,
                        PutUint16(Len(IccidBytes)) \o IccidBytes), <<>>)
      [] cmd = 119 ->                                      \* 0x77 Get voice
           Result(Reply(8, 119, token, <<14>>), <<>>)
      [] cmd = 112 ->                                      \* 0x70 Set voice
           IF Len(data) >= 10
           THEN Result(Reply(7, 112, token, <<>>), <<>>)
           ELSE Result(Nil, <<>>)
      [] cmd = 100 ->                                      \* 0x64 Query pb
           Result(Reply(7 + (1 + (1 + 8 + 1) * 2), 100, token,
                        <<2>> \o <<1>> \o Pad8(PowerBank1ID) \o <<4>>
                              \o <<3>> \o Pad8(PowerBank3ID) \o <<2>>), <<>>)
      [] cmd = 103 -> Result(Reply(7, 103, token, <<>>), <<>>)   \* 0x67
      [] cmd = 99 ->                                       \* 0x63 Set server
           IF Len(data) >= 10
           THEN Result(Reply(7, 99, token, <<>>), <<>>)
           ELSE Result(Nil, <<>>)
      [] OTHER -> Result(Nil, <<>>)

\* a decoder that answers a heartbeat with the first 7 bytes of the frame
HandleIncomingEchoHeader(arr, n) ==
    LET data == SubSeq(arr, 1, n) IN
    IF n < 7 THEN Result(Nil, <<>>)
    ELSE IF ~validateChecksum(data) THEN Result(Nil, <<>>)
    ELSE IF Len(arr) < 9 THEN Panic
    ELSE IF data[3] = 97 THEN Result(SubSeq(data, 1, 7), <<>>)
    ELSE Dispatch(data, Slice(arr, 5, 9))

\* a decoder that rejects a frame whose length field is not len(data)
HandleIncomingStrictLength(arr, n) ==
    LET data == SubSeq(arr, 1, n) IN
    IF n < 7 THEN Result(Nil, <<>>)
    ELSE IF Uint16(data[1], data[2]) # n THEN Result(Nil, <<>>)
    ELSE IF ~validateChecksum(data) THEN Result(Nil, <<>>)
    ELSE IF Len(arr) < 9 THEN Panic
    ELSE Dispatch(data, Slice(arr, 5, 9))

\* (packLen is read from data[0:2] and compared with len(data); a mismatch
\* is logged and the processing goes on, so the field decides nothing)
HandleIncoming(arr, n) ==
    LET data == SubSeq(arr, 1, n) IN
    IF n < 7 THEN Result(Nil, <<>>)
    ELSE IF ~validateChecksum(data) THEN Result(Nil, <<>>)
    ELSE IF Len(arr) < 9 THEN Panic            \* token := data[5:9], cap < 9
    ELSE Dispatch(data, Slice(arr, 5, 9))

(***************************************************************************)
(* CreateCommand(cmd string, tokenHex string, slotStr string) []byte.      *)
(* cmd is a TLA+ string; tokenHex and slotStr are sequences of ASCII codes *)
(* so that hex.DecodeString and strconv.Atoi are computed, not assumed.    *)
(***************************************************************************)
IsDigit(c) == c >= 48 /\ c <= 57

\* encoding/hex fromHexChar: value of one hex digit, -1 when it is none
HexVal(c) ==
    IF c >= 48 /\ c <= 57 THEN c - 48
    ELSE IF c >= 97 /\ c <= 102 THEN c - 97 + 10
    ELSE IF c >= 65 /\ c <= 70 THEN c - 65 + 10
    ELSE -1

\* hex.DecodeString: [err, bytes]; an odd length or a non-hex digit is an error
HexDecodeString(s) ==
    IF Len(s) % 2 # 0 \/ \E i \in 1..Len(s) : HexVal(s[i]) = -1
    THEN [err |-> TRUE, bytes |-> <<>>]
    ELSE [err |-> FALSE,
          bytes |-> [i \in 1..(Len(s) \div 2) |->
                        HexVal(s[2 * i - 1]) * 16 + HexVal(s[2 * i])]]

RECURSIVE DecimalValue(_, _, _)
DecimalValue(s, i, acc) ==
    IF i > Len(s) THEN acc ELSE DecimalValue(s, i + 1, acc * 10 + (s[i] - 48))

\* strconv.Atoi: [err, val]; an optional sign, then one or more decimal digits.
\* (The range error of Atoi needs 19 digits; the strings of the model are
\* shorter, so it is left out.)
Atoi(s) ==
    LET signed == Len(s) > 0 /\ s[1] \in {43, 45}
        digits == IF signed THEN SubSeq(s, 2, Len(s)) ELSE s
        val    == DecimalValue(digits, 1, 0)
    IN  IF Len(digits) = 0 \/ \E i \in 1..Len(digits) : ~IsDigit(digits[i])
        THEN [err |-> TRUE, val |-> 0]
        ELSE IF signed /\ s[1] = 45
             THEN [err |-> FALSE, val |-> 0 - val]
             ELSE [err |-> FALSE, val |-> val]

\* []byte("127.0.0.1") and []byte("9000"), each with its null terminator
AddressBytes == <<49, 50, 55, 46, 48, 46, 48, 46, 49, 0>>
PortBytes == <<57, 48, 48, 48, 0>>

\* the switch on cmd: [ok, cmdByte, payload]
CommandPayload(cmd, slotStr) ==
    LET a == Atoi(slotStr)
        None == [ok |-> FALSE, cmdByte |-> 0, payload |-> <<>>]
        Some(c, p) == [ok |-> TRUE, cmdByte |-> c, payload |-> p]
    IN  CASE cmd = "heartbeat" -> Some(97, <<>>)
          [] cmd = "query_fw" -> Some(98, <<>>)
          [] cmd = "restart" -> Some(103, <<>>)
          [] cmd = "query_iccid" -> Some(105, <<>>)
          [] cmd = "voice_get" -> Some(119, <<>>)
          [] cmd = "query_power_bank" -> Some(100, <<>>)
          [] cmd = "rent" ->
               IF ~a.err /\ a.val >= 1 /\ a.val <= 255
               THEN Some(101, <<a.val % 256>>) ELSE None
          [] cmd = "eject" ->
               IF ~a.err /\ a.val >= 1 /\ a.val <= 255
               THEN Some(128, <<a.val % 256>>) ELSE None
          [] cmd = "voice_set" ->
               IF ~a.err /\ a.val >= 0 /\ a.val <= 15
               THEN Some(112, <<a.val % 256>>) ELSE None
          [] cmd = "set_server" ->
               IF ~a.err /\ a.val > 0
               THEN Some(99, PutUint16(Len(AddressBytes)) \o AddressBytes
                             \o PutUint16(Len(PortBytes)) \o PortBytes
                             \o <<a.val % 256>>)
               ELSE None
          [] OTHER -> None

\* a builder that takes a token of any length
CreateCommandAnyToken(cmd, tokenHex, slotStr) ==
    LET t == HexDecodeString(tokenHex)
        c == CommandPayload(cmd, slotStr)
    IN  IF t.err \/ ~c.ok THEN Nil
        ELSE PutUint16(7 + Len(c.payload))
             \o <<c.cmdByte, 1,
                  IF Len(c.payload) > 0 THEN xorChecksum(c.payload) ELSE 0>>
             \o t.bytes \o c.payload

\* a builder whose length field counts the whole frame
CreateCommandTotalLength(cmd, tokenHex, slotStr) ==
    LET t == HexDecodeString(tokenHex)
        c == CommandPayload(cmd, slotStr)
    IN  IF t.err \/ Len(t.bytes) # 4 THEN Nil
        ELSE IF ~c.ok THEN Nil
        ELSE PutUint16(9 + Len(c.payload))
             \o <<c.cmdByte, 1,
                  IF Len(c.payload) > 0 THEN xorChecksum(c.payload) ELSE 0>>
             \o t.bytes \o c.payload

CreateCommand(cmd, tokenHex, slotStr) ==
    LET t == HexDecodeString(tokenHex)
        c == CommandPayload(cmd, slotStr)
    IN  IF t.err \/ Len(t.bytes) # 4 THEN Nil
        ELSE IF ~c.ok THEN Nil
        ELSE PutUint16(7 + Len(c.payload))
             \o <<c.cmdByte, 1,
                  IF Len(c.payload) > 0 THEN xorChecksum(c.payload) ELSE 0>>
             \o t.bytes \o c.payload

(***************************************************************************)
(* The inputs of the model: the frames a station sends and the requests    *)
(* the HTTP side receives.                                                 *)
(***************************************************************************)
\* a frame on the wire with a correct checksum and the given length field
Frame(packLen, cmd, token, payload) ==
    PutUint16(packLen) \o <<cmd, 1, xorChecksum(payload)>> \o token \o payload

\* the payload of a login frame: random(4), magic(2), boxIdLen(2), boxId
LoginPayload(boxIDLen, boxID) ==
    <<1, 2, 3, 4>> \o <<170, 85>> \o PutUint16(boxIDLen) \o boxID

Token1 == <<17, 34, 51, 68>>

\* the station identities "ST1" and "ST2"
IdA == <<83, 84, 49>>
IdB == <<83, 84, 50>>
Ids == {IdA, IdB}

LoginFrame(id) ==
    LET p == LoginPayload(Len(id) + 1, id \o <<0>>)
    IN  Frame(7 + Len(p), 96, Token1, p)

\* a login frame whose checksum byte is corrupted
BadChecksumLogin(id) ==
    LET f == LoginFrame(id) IN [f EXCEPT ![5] = BitXor(f[5], 255)]

\* a login frame whose boxIdLen field is 0xFFFF
WrapLogin ==
    LET p == LoginPayload(65535, IdA \o <<0>>)
    IN  Frame(7 + Len(p), 96, Token1, p)

\* the frames a peer delivers in one read
Frames ==
    { LoginFrame(IdA), LoginFrame(IdB), BadChecksumLogin(IdA), WrapLogin }

\* ASCII of "11223344", "1122", "5", "300"
TokenHexOK == <<49, 49, 50, 50, 51, 51, 52, 52>>
TokenHexShort == <<49, 49, 50, 50>>
Slot5 == <<53>>
Slot300 == <<51, 48, 48>>

Request(id, cmd, token, slot) ==
    [stationID |-> id, cmd |-> cmd, token |-> token, slot |-> slot]

\* the /send requests of the model: one that CreateCommand accepts, one that
\* it refuses, one with a parameter missing
Requests ==
    { Request(IdA, "rent", TokenHexOK, Slot5),
      Request(IdA, "rent", TokenHexOK, Slot300),
      Request(<<>>, "rent", TokenHexOK, Slot5) }

(***************************************************************************)
(* main.go: the tasks.  Connection tasks are 1..NumConns, the tasks of     *)
(* the HTTP requests 101..; 0 is "no task" / "no connection".              *)
(***************************************************************************)
Conns == 1..NumConns
Https == 101..(100 + NumHttp)
Tasks == Conns \cup Https

VARIABLES
    connections,  \* var connections map[string]net.Conn
    seqMap,       \* history: the register/deregister operations applied one by one
    muW,          \* mu: the task that called mu.Lock() and has not unlocked, or 0
    muR,          \* mu: the tasks between mu.RLock() and mu.RUnlock()
    pc,           \* where each task is
    buf,          \* handleConnection: buf, the read buffer (its first BufCap bytes)
    n,            \* handleConnection: n of the last c.Read
    stationID,    \* handleConnection: var stationID string
    resp,         \* handleConnection: resp of resp, id := HandleIncoming(buf[:n])
    snap,         \* handleConnection: the map as read by the map operation under way
    reads,        \* number of frames the peer of a connection has delivered
    closed,       \* c.Close() was called on the connection
    panicking,    \* the connection task is unwinding after a run-time panic
    crashed,      \* the process died of an unrecovered panic
    out,          \* per connection, the frames written to its socket, in order,
                  \* each with the task that wrote it and, for a reply, the
                  \* number of the read that delivered the frame it answers
    req,          \* handleSendCommand: stationID, cmd, token, slot
    conn,         \* handleSendCommand: conn of conn, exists := connections[stationID]
    exists,       \* handleSendCommand: exists
    status,       \* handleSendCommand: the HTTP status answered, 0 while running
    cArr,         \* a call of HandleIncoming: the backing array of its argument
    cN,           \* a call of HandleIncoming: the length of its argument
    cCur,         \* the caller's stationID before the call
    cRes,         \* what the call returned
    cReg,         \* whether the caller registers the station after the call
    cpc,          \* "call" before the call, "done" after it
    bCmd,         \* a call of CreateCommand: cmd
    bToken,       \* a call of CreateCommand: tokenHex
    bSlot,        \* a call of CreateCommand: slotStr
    bRes,         \* what the call returned
    bpc           \* "call" before the call, "built" after it, "sent" once the
                  \* frame was handed to a decoder

muVars == <<muW, muR>>
connVars == <<buf, n, stationID, resp, snap, reads, closed, panicking>>
sendVars == <<req, conn, exists, status>>
sysVars == <<connections, seqMap, muVars, pc, connVars, crashed, out, sendVars>>
buildVars == <<bCmd, bToken, bSlot, bRes, bpc>>
codecVars == <<cArr, cN, cCur, cRes, cReg, cpc, buildVars>>
vars == <<sysVars, codecVars>>

SysInit ==
    /\ connections = <<>>
    /\ seqMap = <<>>
    /\ muW = 0
    /\ muR = {}
    /\ pc = [t \in Tasks |-> IF t \in Conns THEN "read" ELSE "idle"]
    /\ buf = [c \in Conns |-> [i \in 1..BufCap |-> 0]]
    /\ n = [c \in Conns |-> 0]
    /\ stationID = [c \in Conns |-> <<>>]
    /\ resp = [c \in Conns |-> Nil]
    /\ snap = [c \in Conns |-> <<>>]
    /\ reads = [c \in Conns |-> 0]
    /\ closed = [c \in Conns |-> FALSE]
    /\ panicking = [c \in Conns |-> FALSE]
    /\ crashed = FALSE
    /\ out = [c \in Conns |-> <<>>]
    /\ req = [h \in Https |-> Request(<<>>, "", <<>>, <<>>)]
    /\ conn = [h \in Https |-> 0]
    /\ exists = [h \in Https |-> FALSE]
    /\ status = [h \in Https |-> 0]

(***************************************************************************)
(* sync.RWMutex.  Lock() first takes the writers' mutex, which makes every *)
(* later RLock() wait, and then waits for the readers that are inside.     *)
(***************************************************************************)
\* mu.Lock(), first half: rw.w.Lock() and the announcement to the readers
LockAnnounce(t) == muW = 0 /\ muW' = t /\ muR' = muR

\* a Lock() that does not wait for the readers that are inside
LockGrantedOverReaders(t) == muW = t

\* mu.Lock(), second half: the readers that are inside have left
LockGranted(t) == muW = t /\ muR = {}

\* a critical section that ends without mu.Unlock()
UnlockForgotten(t) == muW' = muW /\ muR' = muR

\* mu.Unlock()
Unlock(t) == muW' = 0 /\ muR' = muR

\* mu.RLock(): waits while a writer holds or has announced itself
RLock(t) == muW = 0 /\ muR' = muR \cup {t} /\ muW' = muW

\* mu.RUnlock()
RUnlock(t) == muR' = muR \ {t} /\ muW' = muW

(***************************************************************************)
(* The registry operations, as the code performs them on the map.          *)
(***************************************************************************)
\* a registration that keeps the entry an identity already has
MapPutKeepFirst(m, id, c) ==
    [k \in (DOMAIN m) \cup {id} |-> IF k \in DOMAIN m THEN m[k] ELSE c]

\* connections[id] = c
MapPut(m, id, c) == [k \in (DOMAIN m) \cup {id} |-> IF k = id THEN c ELSE m[k]]

\* delete(connections, id)
MapDelete(m, id) == [k \in (DOMAIN m) \ {id} |-> m[k]]

\* conn, exists := connections[id]
MapGet(m, id) == IF id \in DOMAIN m THEN m[id] ELSE 0

\* the keys under which the deferred scan finds c
KeysOf(m, c) == {k \in DOMAIN m : m[k] = c}

\* a cleanup that deletes nothing
ScanDeleteNothing(m, c) == {m}

\* a cleanup that deletes an entry whatever connection it holds
ScanDeleteAny(m, c) ==
    IF DOMAIN m = {} THEN {m} ELSE {[k \in (DOMAIN m) \ {x} |-> m[k]] : x \in DOMAIN m}

\* for id, conn := range connections { if conn == c { delete; break } }:
\* the maps the scan can leave (the order of range is unspecified)
ScanDelete(m, c) ==
    IF KeysOf(m, c) = {} THEN {m} ELSE {MapDelete(m, k) : k \in KeysOf(m, c)}

\* a registration on every frame that carries an identity
ShouldRegisterAlways(id, cur) == id # <<>>

\* the condition under which handleConnection registers the station
ShouldRegister(id, cur) == id # <<>> /\ cur = <<>>

(***************************************************************************)
(* handleConnection(c).                                                    *)
(***************************************************************************)
Incoming(c) == HandleIncoming(buf[c], n[c])

\* n, err := c.Read(buf) returns an error: return (the deferred cleanup runs)
ReadError(c) ==
    /\ ~crashed /\ pc[c] = "read"
    /\ pc' = [pc EXCEPT ![c] = "close"]
    /\ UNCHANGED codecVars
    /\ UNCHANGED <<connections, seqMap, muVars, connVars, crashed, out, sendVars>>

\* n, err := c.Read(buf) delivers one frame
ReadFrame(c) ==
    /\ ~crashed /\ pc[c] = "read"
    /\ reads[c] < MaxReads
    /\ \E f \in Frames :
         /\ buf' = [buf EXCEPT ![c] = f \o SubSeq(buf[c], Len(f) + 1, BufCap)]
         /\ n' = [n EXCEPT ![c] = Len(f)]
    /\ reads' = [reads EXCEPT ![c] = reads[c] + 1]
    /\ pc' = [pc EXCEPT ![c] = "handle"]
    /\ UNCHANGED codecVars
    /\ UNCHANGED <<connections, seqMap, muVars, stationID, resp, snap, closed,
                   panicking, crashed, out, sendVars>>

\* resp, id := protocol.HandleIncoming(buf[:n]) and the test that follows
Handle(c) ==
    /\ ~crashed /\ pc[c] = "handle"
    /\ LET r == Incoming(c) IN
         IF r.panic
         THEN /\ panicking' = [panicking EXCEPT ![c] = TRUE]
              /\ pc' = [pc EXCEPT ![c] = "close"]
              /\ UNCHANGED <<stationID, resp>>
         ELSE /\ UNCHANGED panicking
              /\ resp' = [resp EXCEPT ![c] = r.resp]
              /\ IF ShouldRegister(r.id, stationID[c])
                 THEN /\ stationID' = [stationID EXCEPT ![c] = r.id]
                      /\ pc' = [pc EXCEPT ![c] = "lock"]
                 ELSE /\ UNCHANGED stationID
                      /\ pc' = [pc EXCEPT ![c] =
                                  IF r.resp # Nil THEN "write" ELSE "read"]
    /\ UNCHANGED codecVars
    /\ UNCHANGED <<connections, seqMap, muVars, buf, n, snap, reads, closed,
                   crashed, out, sendVars>>

\* mu.Lock() before the registration
RegisterLock(c) ==
    /\ ~crashed /\ pc[c] = "lock"
    /\ LockAnnounce(c)
    /\ pc' = [pc EXCEPT ![c] = "lockwait"]
    /\ UNCHANGED codecVars
    /\ UNCHANGED <<connections, seqMap, connVars, crashed, out, sendVars>>

RegisterLocked(c) ==
    /\ ~crashed /\ pc[c] = "lockwait"
    /\ LockGranted(c)
    /\ pc' = [pc EXCEPT ![c] = "register"]
    /\ UNCHANGED codecVars
    /\ UNCHANGED <<connections, seqMap, muVars, connVars, crashed, out, sendVars>>

\* connections[stationID] = c, the map being read ...
RegisterLoad(c) ==
    /\ ~crashed /\ pc[c] = "register"
    /\ snap' = [snap EXCEPT ![c] = connections]
    /\ pc' = [pc EXCEPT ![c] = "regstore"]
    /\ UNCHANGED codecVars
    /\ UNCHANGED <<connections, seqMap, muVars, buf, n, stationID, resp, reads,
                   closed, panicking, crashed, out, sendVars>>

\* ... and written; mu.Unlock()
Register(c) ==
    /\ ~crashed /\ pc[c] = "regstore"
    /\ connections' = MapPut(snap[c], stationID[c], c)
    /\ seqMap' = MapPut(seqMap, stationID[c], c)
    /\ snap' = [snap EXCEPT ![c] = <<>>]
    /\ Unlock(c)
    /\ pc' = [pc EXCEPT ![c] = IF resp[c] # Nil THEN "write" ELSE "read"]
    /\ UNCHANGED codecVars
    /\ UNCHANGED <<buf, n, stationID, resp, reads, closed, panicking, crashed, out,
                   sendVars>>

\* a task that goes back to its read and leaves the reply for later
WriteReplyDeferred(c) ==
    /\ ~crashed /\ pc[c] = "write"
    /\ pc' = [pc EXCEPT ![c] = "read"]
    /\ UNCHANGED codecVars
    /\ UNCHANGED <<connections, seqMap, muVars, connVars, crashed, out, sendVars>>

\* _, err := c.Write(resp): the write succeeds, or fails (always on a closed
\* connection) and the task returns
WriteReply(c) ==
    /\ ~crashed /\ pc[c] = "write"
    /\ \/ /\ ~closed[c]
          /\ out' = [out EXCEPT ![c] =
                       Append(out[c], [by |-> c, k |-> reads[c], frame |-> resp[c]])]
          /\ pc' = [pc EXCEPT ![c] = "read"]
       \/ /\ out' = out
          /\ pc' = [pc EXCEPT ![c] = "close"]
    /\ UNCHANGED codecVars
    /\ UNCHANGED <<connections, seqMap, muVars, connVars, crashed, sendVars>>

\* the deferred function: c.Close()
Close(c) ==
    /\ ~crashed /\ pc[c] = "close"
    /\ closed' = [closed EXCEPT ![c] = TRUE]
    /\ pc' = [pc EXCEPT ![c] = "dlock"]
    /\ UNCHANGED codecVars
    /\ UNCHANGED <<connections, seqMap, muVars, buf, n, stationID, resp, snap, reads,
                   panicking, crashed, out, sendVars>>

\* the deferred function: mu.Lock()
DeregisterLock(c) ==
    /\ ~crashed /\ pc[c] = "dlock"
    /\ LockAnnounce(c)
    /\ pc' = [pc EXCEPT ![c] = "dlockwait"]
    /\ UNCHANGED codecVars
    /\ UNCHANGED <<connections, seqMap, connVars, crashed, out, sendVars>>

DeregisterLocked(c) ==
    /\ ~crashed /\ pc[c] = "dlockwait"
    /\ LockGranted(c)
    /\ pc' = [pc EXCEPT ![c] = "deregister"]
    /\ UNCHANGED codecVars
    /\ UNCHANGED <<connections, seqMap, muVars, connVars, crashed, out, sendVars>>

\* the deferred function: the scan starts reading the map ...
DeregisterLoad(c) ==
    /\ ~crashed /\ pc[c] = "deregister"
    /\ snap' = [snap EXCEPT ![c] = connections]
    /\ pc' = [pc EXCEPT ![c] = "deregstore"]
    /\ UNCHANGED codecVars
    /\ UNCHANGED <<connections, seqMap, muVars, buf, n, stationID, resp, reads,
                   closed, panicking, crashed, out, sendVars>>

\* ... and deletes the entry it finds; mu.Unlock().  The task has returned (its
\* buffer is gone; stationID is kept as the record of who the station was),
\* and a panicking task ends the process
Deregister(c) ==
    /\ ~crashed /\ pc[c] = "deregstore"
    /\ connections' \in ScanDelete(snap[c], c)
    /\ seqMap' \in ScanDelete(seqMap, c)
    /\ Unlock(c)
    /\ crashed' = panicking[c]
    /\ pc' = [pc EXCEPT ![c] = "done"]
    /\ buf' = [buf EXCEPT ![c] = [i \in 1..BufCap |-> 0]]
    /\ n' = [n EXCEPT ![c] = 0]
    /\ resp' = [resp EXCEPT ![c] = Nil]
    /\ snap' = [snap EXCEPT ![c] = <<>>]
    /\ UNCHANGED codecVars
    /\ UNCHANGED <<stationID, reads, closed, panicking, out, sendVars>>

(***************************************************************************)
(* handleSendCommand(w, r).                                                *)
(***************************************************************************)
\* the request is parsed; a missing parameter is answered 400
SendStart(h) ==
    /\ ~crashed /\ pc[h] = "idle"
    /\ \E q \in Requests :
         /\ req' = [req EXCEPT ![h] = q]
         /\ IF q.stationID = <<>> \/ q.cmd = "" \/ q.token = <<>>
            THEN /\ status' = [status EXCEPT ![h] = 400]
                 /\ pc' = [pc EXCEPT ![h] = "done"]
            ELSE /\ UNCHANGED status
                 /\ pc' = [pc EXCEPT ![h] = "rlock"]
    /\ UNCHANGED codecVars
    /\ UNCHANGED <<connections, seqMap, muVars, connVars, crashed, out, conn,
                   exists>>

\* mu.RLock()
SendRLock(h) ==
    /\ ~crashed /\ pc[h] = "rlock"
    /\ RLock(h)
    /\ pc' = [pc EXCEPT ![h] = "lookup"]
    /\ UNCHANGED codecVars
    /\ UNCHANGED <<connections, seqMap, connVars, crashed, out, sendVars>>

\* conn, exists := connections[stationID]; mu.RUnlock()
SendLookup(h) ==
    /\ ~crashed /\ pc[h] = "lookup"
    /\ conn' = [conn EXCEPT ![h] = MapGet(connections, req[h].stationID)]
    /\ exists' = [exists EXCEPT ![h] = req[h].stationID \in DOMAIN connections]
    /\ RUnlock(h)
    /\ pc' = [pc EXCEPT ![h] = "found"]
    /\ UNCHANGED codecVars
    /\ UNCHANGED <<connections, seqMap, connVars, crashed, out, req, status>>

\* a handler that goes on to the write whatever CreateCommand returned
SendBuildUnchecked(h) ==
    /\ ~crashed /\ pc[h] = "found"
    /\ pc' = [pc EXCEPT ![h] = IF ~exists[h] THEN "ids" ELSE "send"]
    /\ UNCHANGED codecVars
    /\ UNCHANGED <<connections, seqMap, muVars, connVars, crashed, out, sendVars>>

\* if !exists: the log line calls getConnectedStationIDs(), which takes the
\* read lock again; otherwise CreateCommand, and 400 when it returns nil
SendBuild(h) ==
    /\ ~crashed /\ pc[h] = "found"
    /\ IF ~exists[h]
       THEN /\ pc' = [pc EXCEPT ![h] = "ids"]
            /\ UNCHANGED status
       ELSE IF CreateCommand(req[h].cmd, req[h].token, req[h].slot) = Nil
       THEN /\ status' = [status EXCEPT ![h] = 400]
            /\ pc' = [pc EXCEPT ![h] = "done"]
       ELSE /\ pc' = [pc EXCEPT ![h] = "send"]
            /\ UNCHANGED status
    /\ UNCHANGED codecVars
    /\ UNCHANGED <<connections, seqMap, muVars, connVars, crashed, out, req,
                   conn, exists>>

\* getConnectedStationIDs(): mu.RLock()
SendIdsRLock(h) ==
    /\ ~crashed /\ pc[h] = "ids"
    /\ RLock(h)
    /\ pc' = [pc EXCEPT ![h] = "idsread"]
    /\ UNCHANGED codecVars
    /\ UNCHANGED <<connections, seqMap, connVars, crashed, out, sendVars>>

\* getConnectedStationIDs(): the keys are collected, mu.RUnlock() (deferred);
\* the request is answered 400
SendIdsDone(h) ==
    /\ ~crashed /\ pc[h] = "idsread"
    /\ RUnlock(h)
    /\ status' = [status EXCEPT ![h] = 400]
    /\ pc' = [pc EXCEPT ![h] = "done"]
    /\ UNCHANGED codecVars
    /\ UNCHANGED <<connections, seqMap, connVars, crashed, out, req, conn,
                   exists>>

\* what handleSendCommand does when conn.Write returns an error: it answers
\* 500 and returns
SendWriteFailed(h) ==
    /\ status' = [status EXCEPT ![h] = 500]
    /\ UNCHANGED <<connections, seqMap, closed, out>>

\* a write that succeeds on a connection that has been closed
SendWriteOnClosed(h) ==
    /\ ~crashed /\ pc[h] = "send"
    /\ out' = [out EXCEPT ![conn[h]] =
                 Append(out[conn[h]],
                        [by |-> h, k |-> 0,
                         frame |-> CreateCommand(req[h].cmd, req[h].token,
                                                 req[h].slot)])]
    /\ status' = [status EXCEPT ![h] = 200]
    /\ pc' = [pc EXCEPT ![h] = "done"]
    /\ UNCHANGED codecVars
    /\ UNCHANGED <<connections, seqMap, closed, muVars, buf, n, stationID, resp,
                   snap, reads, panicking, crashed, req, conn, exists>>

\* _, err := conn.Write(payload)
SendWrite(h) ==
    /\ ~crashed /\ pc[h] = "send"
    /\ \/ /\ ~closed[conn[h]]
          /\ out' = [out EXCEPT ![conn[h]] =
                       Append(out[conn[h]],
                              [by |-> h, k |-> 0,
                               frame |-> CreateCommand(req[h].cmd, req[h].token,
                                                       req[h].slot)])]
          /\ status' = [status EXCEPT ![h] = 200]
          /\ UNCHANGED <<connections, seqMap, closed>>
       \/ SendWriteFailed(h)
    /\ pc' = [pc EXCEPT ![h] = "done"]
    /\ UNCHANGED codecVars
    /\ UNCHANGED <<muVars, buf, n, stationID, resp, snap, reads, panicking, crashed,
                   req, conn, exists>>

(***************************************************************************)
(* handleListStations(w, r).                                               *)
(***************************************************************************)
\* mu.RLock()
ListRLock(l) ==
    /\ ~crashed /\ pc[l] = "idle"
    /\ RLock(l)
    /\ pc' = [pc EXCEPT ![l] = "listing"]
    /\ UNCHANGED codecVars
    /\ UNCHANGED <<connections, seqMap, connVars, crashed, out, sendVars>>

\* the range over connections; mu.RUnlock()
ListDone(l) ==
    /\ ~crashed /\ pc[l] = "listing"
    /\ RUnlock(l)
    /\ pc' = [pc EXCEPT ![l] = "done"]
    /\ UNCHANGED codecVars
    /\ UNCHANGED <<connections, seqMap, connVars, crashed, out, sendVars>>

(***************************************************************************)
(* The gateway: every station delivers up to MaxReads frames, and one HTTP *)
(* request is served.                                                      *)
(***************************************************************************)
BuildIdle ==
    bCmd = "" /\ bToken = <<>> /\ bSlot = <<>> /\ bRes = Nil /\ bpc = "off"

CallIdle ==
    /\ cArr = <<>> /\ cN = 0 /\ cCur = <<>> /\ cReg = FALSE /\ cpc = "off"
    /\ cRes = Result(Nil, <<>>)

CodecIdle == CallIdle /\ BuildIdle

Init == SysInit /\ CodecIdle

ConnStep(c) ==
    \/ ReadError(c) \/ ReadFrame(c) \/ Handle(c)
    \/ RegisterLock(c) \/ RegisterLocked(c) \/ RegisterLoad(c)
    \/ Register(c) \/ WriteReply(c)
    \/ Close(c) \/ DeregisterLock(c) \/ DeregisterLocked(c)
    \/ DeregisterLoad(c) \/ Deregister(c)

HttpStep(h) ==
    \/ SendStart(h) \/ SendRLock(h) \/ SendLookup(h) \/ SendBuild(h)
    \/ SendIdsRLock(h) \/ SendIdsDone(h) \/ SendWrite(h)
    \/ ListRLock(h) \/ ListDone(h)

Next ==
    \/ \E c \in Conns : ConnStep(c)
    \/ \E h \in {101} : HttpStep(h)

Spec == Init /\ [][Next]_vars

(***************************************************************************)
(* The same gateway with two HTTP requests in flight and stations that     *)
(* deliver one frame each: the runs in which lookups and listings overlap  *)
(* each other and the registrations.                                       *)
(***************************************************************************)
OneFrameStep(c) ==
    \/ ReadError(c) \/ (reads[c] = 0 /\ ReadFrame(c)) \/ Handle(c)
    \/ RegisterLock(c) \/ RegisterLocked(c) \/ RegisterLoad(c)
    \/ Register(c) \/ WriteReply(c)
    \/ Close(c) \/ DeregisterLock(c) \/ DeregisterLocked(c)
    \/ DeregisterLoad(c) \/ Deregister(c)

RWNext ==
    \/ \E c \in Conns : OneFrameStep(c)
    \/ \E h \in Https : HttpStep(h)

RWSpec == Init /\ [][RWNext]_vars

(***************************************************************************)
(* Steps of a connection task, as the claims speak of them.                *)
(***************************************************************************)
\* the task is done with the frame it read: it goes on to the reply or the
\* next read, after the registration if there was one
Processed(c) == pc[c] \in {"handle", "regstore"} /\ pc'[c] \in {"write", "read"}

\* the same, for the frame that made the task register (its first login)
FirstLoginProcessed(c) == pc[c] = "regstore" /\ pc'[c] \in {"write", "read"}

\* the deferred cleanup of the task has run
DeregisteredStep(c) == pc[c] = "deregstore" /\ pc'[c] = "done"

\* the task decides what to do with the frame it read
Decided(c) == pc[c] = "handle" /\ pc'[c] # "handle"

WritersInside ==
    {c \in Conns : pc[c] \in {"register", "regstore", "deregister", "deregstore"}}
ReadersInside == {h \in Https : pc[h] \in {"lookup", "idsread", "listing"}}

\* C5: under every interleaving of registering and deregistering connection
\* tasks and HTTP tasks that look up or list, at most one task is inside a
\* write section and then no task is inside a read section, and no update is
\* lost: the registry equals the map obtained by applying the registrations
\* and deregistrations one after the other, in the order of their stores.
C5_Exclusion ==
    /\ Cardinality(WritersInside) <= 1
    /\ WritersInside # {} => ReadersInside = {}
    /\ connections = seqMap

\* C5 witness: two HTTP tasks are inside their read sections at the same
\* time, on a registry that two registrations have filled
C5_Witness ==
    /\ ReadersInside = Https
    /\ MapGet(connections, IdA) # 0 /\ MapGet(connections, IdB) # 0

\* the task holds mu (or the writers' mutex inside it)
HoldsLock(t) == muW = t \/ t \in muR

\* C6: no task holds the registry lock while it reads from or writes to a
\* socket: a connection task about to read or to write its reply, and a
\* /send task about to write its command, hold nothing of mu.
C6_NoLockDuringIO ==
    \A t \in Tasks : pc[t] \in {"read", "write", "send", "close"} => ~HoldsLock(t)

\* C6 witness: connection 1 has registered and is about to write the login
\* reply while a /send task that looked it up is about to write its command
C6_Witness ==
    /\ pc[1] = "write" /\ MapGet(connections, IdA) = 1
    /\ pc[101] = "send" /\ conn[101] = 1

\* C7 as stated: a failed socket write is fatal for the connection in both
\* directions: after a failed reply write (the task returns) and after a
\* failed command write in handleSendCommand (it answers 500), the
\* connection is closed and no registry entry refers to it.
C7_WriteFailureFatal ==
    /\ \A c \in Conns : pc[c] = "done" => closed[c] /\ KeysOf(connections, c) = {}
    /\ \A h \in Https :
          status[h] = 500 => closed[conn[h]] /\ KeysOf(connections, conn[h]) = {}

\* C8 as stated: whatever bytes a read delivers, processing them does not
\* panic and does not end the task; a frame without reply leaves the
\* registry unchanged and the task goes to the next read, connection open.
C8_NeverPanics ==
    [][\A c \in Conns :
         Decided(c)
            => /\ ~panicking'[c]
               /\ pc'[c] \in {"lock", "write", "read"}
               /\ Incoming(c).resp = Nil
                     => pc'[c] = "read" /\ connections' = connections /\ ~closed'[c]
      ]_vars

(***************************************************************************)
(* The gateway under the scheduling the Go runtime gives: a task that can  *)
(* take a step of its own eventually takes it, and a task waiting in       *)
(* mu.Lock() or mu.RLock() eventually gets the lock if it keeps becoming   *)
(* free (sync.Mutex hands the lock to a waiter that has waited 1ms).       *)
(* Nothing is promised about the peers: reads and socket writes may block  *)
(* for ever, HTTP requests need not arrive.                                *)
(***************************************************************************)
FairNext ==
    \/ \E c \in Conns : OneFrameStep(c)
    \/ \E h \in {101} : HttpStep(h)

\* the steps a connection task takes on the registry and in its deferred
\* cleanup (no socket read or write)
ConnLocalStep(c) ==
    \/ RegisterLock(c) \/ RegisterLocked(c) \/ RegisterLoad(c) \/ Register(c)
    \/ Close(c) \/ DeregisterLock(c) \/ DeregisterLocked(c)
    \/ DeregisterLoad(c) \/ Deregister(c)

\* the steps the task of a started HTTP request takes on its own
HttpLocalStep(h) ==
    \/ SendRLock(h) \/ SendLookup(h) \/ SendBuild(h)
    \/ SendIdsRLock(h) \/ SendIdsDone(h) \/ ListDone(h)

\* a task is at one place at a time, so strong fairness of its steps taken
\* together is weak fairness of each step and strong fairness of its lock
\* acquisitions
Fairness ==
    /\ \A c \in Conns : SF_vars(ConnLocalStep(c))
    /\ \A h \in {101} : SF_vars(HttpLocalStep(h))

FairSpec == Init /\ [][FairNext]_vars /\ Fairness

\* C3: once the read of a connection has failed (the task is in its
\* deferred cleanup) the task terminates, and a terminated task has left no
\* registry entry that refers to its connection.  (The process dying of
\* another task's panic terminates every task.)
C3_Deregistration ==
    /\ [](\A c \in Conns : pc[c] = "done" => KeysOf(connections, c) = {})
    /\ \A c \in Conns : (pc[c] = "close") ~> (pc[c] = "done" \/ crashed)

\* C3 witness: connection 1 registered as "ST1", was answered, its next read
\* failed, and it has terminated with "ST1" gone from the registry
C3_Witness ==
    /\ pc[1] = "done" /\ stationID[1] = IdA /\ ~panicking[1] /\ Len(out[1]) = 1
    /\ IdA \notin DOMAIN connections

(***************************************************************************)
(* HandleIncoming on its own: one call per behaviour, on a slice drawn     *)
(* from frames of every kind, cut at every boundary the function tests,    *)
(* with a correct or a corrupted checksum byte, in a buffer that goes on   *)
(* behind the slice with zero or stale bytes.                              *)
(***************************************************************************)
\* header and payload of a frame, the checksum byte not yet set
Body(cmd, payload) ==
    PutUint16(7 + Len(payload)) \o <<cmd, 1, 0>> \o Token1 \o payload

\* the values of the boxIdLen field
CodecBoxLens == {0, 3, 4, 5, 65518, 65519, 65535}

CodecBodies ==
    {Body(96, LoginPayload(l, IdA \o <<0>>)) : l \in CodecBoxLens}
       \cup {Body(96, LoginPayload(2, <<65, 0>>)),
             Body(96, LoginPayload(4, IdA \o <<0, 0, 1, 9>>))}
       \cup {Body(96, <<>>), Body(97, <<>>), Body(97, <<9, 8, 7>>),
             Body(101, <<5>>), Body(101, <<>>), Body(102, <<5, 1, 2>>),
             Body(242, <<7, 7, 7>>)}
       \cup {Body(102, <<5, 82, 76, 49, 65, 124, 48, 48, 100>>)}
       \cup {Body(c, p) : c \in {98, 99, 100, 103, 105, 112, 119, 128},
                          p \in {<<>>, <<3>>}}

\* the number of bytes of the frame that the read delivered
CodecCuts == {0, 4, 6, 7, 8, 9, 10, 20, 21}

\* what is XORed into the right checksum byte: nothing, one bit, or the XOR
\* of the token bytes
CodecDeltas == {0, 1, 68}

\* the frame's first k bytes with the checksum byte set for them
Stamp(body, k, delta) ==
    LET data == SubSeq(body, 1, k)
    IN  IF k < 5 THEN data
        ELSE [data EXCEPT ![5] = BitXor(xorChecksum(From(data, 9)), delta)]

\* the bytes of the buffer after the slice (the buffer of handleConnection
\* is longer than every slice of it that matters here): zeros, or what an
\* earlier read left there
CodecTails(k) ==
    {[i \in 1..(BufCap - k) |-> 0], [i \in 1..(BufCap - k) |-> 165]}

CodecInit ==
    /\ SysInit
    /\ \E body \in CodecBodies, delta \in CodecDeltas :
       \E k \in {c \in CodecCuts : c <= Len(body)} \cup {Len(body)} :
         /\ \E tail \in CodecTails(k) : cArr = Stamp(body, k, delta) \o tail
         /\ cN = k
    /\ cCur \in {<<>>, IdB}
    /\ cRes = Result(Nil, <<>>)
    /\ cReg = FALSE
    /\ cpc = "call"
    /\ BuildIdle

\* resp, id := protocol.HandleIncoming(buf[:n]) and the caller's test
\* if id != "" && stationID == ""
CodecCall ==
    /\ cpc = "call"
    /\ cRes' = HandleIncoming(cArr, cN)
    /\ cReg' = (~cRes'.panic /\ ShouldRegister(cRes'.id, cCur))
    /\ cpc' = "done"
    /\ UNCHANGED <<cArr, cN, cCur, buildVars>>
    /\ UNCHANGED sysVars

CodecNext == CodecCall

CodecSpec == CodecInit /\ [][CodecNext]_vars

\* the argument of the call
CodecData == SubSeq(cArr, 1, cN)

\* C9: HandleIncoming returns no reply and an empty identity for every input
\* shorter than 7 bytes and for every input whose checksum byte (offset 4)
\* differs from the XOR of the bytes from offset 9 on (0 when there are
\* none), and the caller does not register a station for it.
C9_RejectedFrames ==
    (cpc = "done" /\ (cN < 7 \/ CodecData[5] # xorChecksum(From(CodecData, 9))))
       => cRes = Result(Nil, <<>>) /\ ~cReg

\* C9 witness: a 21-byte login frame with the well-formed boxId "ST1" and one
\* bit of its checksum byte flipped was handed to HandleIncoming by a caller
\* without identity, and nothing came back
C9_Witness ==
    /\ cpc = "done" /\ cN = 21 /\ cCur = <<>>
    /\ CodecData[3] = 96 /\ Uint16(CodecData[16], CodecData[17]) = 4
    /\ Slice(CodecData, 17, 20) = IdA
    /\ CodecData[5] # xorChecksum(From(CodecData, 9))
    /\ cRes.resp = Nil /\ ~cReg

\* C10 as stated: for every login frame that passes the checksum validation,
\* whatever its boxIdLen field holds and however many bytes were received,
\* HandleIncoming returns the login reply (opcode 0x60, the token echoed, the
\* payload byte 0x01); when boxIdLen announces more bytes than the frame
\* holds the identity is empty and no registration occurs.
C10_LoginAlwaysAnswered ==
    (/\ cpc = "done" /\ cN >= 9 /\ CodecData[3] = 96
     /\ CodecData[5] = xorChecksum(From(CodecData, 9)))
       => /\ ~cRes.panic
          /\ cRes.resp = Reply(8, 96, Slice(CodecData, 5, 9), <<1>>)
          /\ (cN >= 17 /\ 17 + Uint16(CodecData[16], CodecData[17]) > cN)
                => cRes.id = <<>> /\ ~cReg

\* a boxId as the spec reads it: the NUL terminator removed
StripNul(b) == IF Len(b) > 0 /\ b[Len(b)] = 0 THEN SubSeq(b, 1, Len(b) - 1) ELSE b

\* the call is over, on a frame with this opcode that passes the checksum
\* validation
CodecValid(cmd) ==
    /\ cpc = "done" /\ cN >= 7 /\ CodecData[3] = cmd
    /\ CodecData[5] = xorChecksum(From(CodecData, 9))

\* C11 as stated: for every login frame that passes the checksum validation
\* and holds random, magic, boxIdLen and all boxIdLen >= 1 bytes of boxId
\* (boxIds of 1 to 3 bytes included), the identity returned is the boxId with
\* its NUL terminator removed.
C11_LoginIdentity ==
    (/\ CodecValid(96) /\ cN >= 17
     /\ Uint16(CodecData[16], CodecData[17]) >= 1
     /\ 17 + Uint16(CodecData[16], CodecData[17]) <= cN)
       => /\ ~cRes.panic
          /\ cRes.id = StripNul(Slice(CodecData, 17,
                                      17 + Uint16(CodecData[16], CodecData[17])))

\* C12: for every heartbeat frame (opcode 0x61) that passes validation, with
\* or without payload bytes, HandleIncoming returns a reply equal byte for
\* byte to the received frame, and an empty identity.
C12_HeartbeatEcho ==
    CodecValid(97) => ~cRes.panic /\ cRes.resp = CodecData /\ cRes.id = <<>>

\* C12 witness: a 12-byte heartbeat with three payload bytes, read into a
\* buffer that holds stale bytes behind it, came back as the same 12 bytes
C12_Witness ==
    /\ CodecValid(97) /\ cN = 12 /\ cArr[13] = 165
    /\ Slice(CodecData, 9, 12) = <<9, 8, 7>>
    /\ cRes.resp = CodecData /\ Len(cRes.resp) = 12

(***************************************************************************)
(* CreateCommand on its own: one call per behaviour, on every command name *)
(* of the switch and two that are not, tokens that decode and tokens that  *)
(* do not, and parameters on both sides of every bound; the frame it       *)
(* returns is then handed to HandleIncoming.                               *)
(***************************************************************************)
BuildCmds ==
    {"heartbeat", "query_fw", "restart", "query_iccid", "voice_get",
     "query_power_bank", "rent", "eject", "voice_set", "set_server",
     "unlock", ""}

\* ASCII of "11223344", "AaBbCcDd", "0000005c", "1122", "1122334455",
\* "112233445", "1122334g", ""
BuildTokens ==
    {TokenHexOK, <<65, 97, 66, 98, 67, 99, 68, 100>>,
     <<48, 48, 48, 48, 48, 48, 53, 99>>, TokenHexShort,
     <<49, 49, 50, 50, 51, 51, 52, 52, 53, 53>>,
     <<49, 49, 50, 50, 51, 51, 52, 52, 53>>,
     <<49, 49, 50, 50, 51, 51, 52, 103>>, <<>>}

\* ASCII of "", "0", "1", "5", "15", "16", "255", "256", "300", "-1", "+5",
\* "5a", "abc"
BuildSlots ==
    {<<>>, <<48>>, <<49>>, Slot5, <<49, 53>>, <<49, 54>>, <<50, 53, 53>>,
     <<50, 53, 54>>, Slot300, <<45, 49>>, <<43, 53>>, <<53, 97>>, <<97, 98, 99>>}

BuildInit ==
    /\ SysInit /\ CallIdle
    /\ bCmd \in BuildCmds /\ bToken \in BuildTokens /\ bSlot \in BuildSlots
    /\ bRes = Nil
    /\ bpc = "call"

\* payload := protocol.CreateCommand(cmd, token, slot)
BuildCall ==
    /\ bpc = "call"
    /\ bRes' = CreateCommand(bCmd, bToken, bSlot)
    /\ bpc' = "built"
    /\ UNCHANGED <<bCmd, bToken, bSlot>>
    /\ UNCHANGED <<cArr, cN, cCur, cRes, cReg, cpc>>
    /\ UNCHANGED sysVars

\* the frame is received by a reader that hands it to HandleIncoming
LoopBack ==
    /\ bpc = "built" /\ bRes # Nil
    /\ \E tail \in CodecTails(Len(bRes)) : cArr' = bRes \o tail
    /\ cN' = Len(bRes)
    /\ cpc' = "call"
    /\ bpc' = "sent"
    /\ UNCHANGED <<cCur, cRes, cReg, bCmd, bToken, bSlot, bRes>>
    /\ UNCHANGED sysVars

BuildNext == BuildCall \/ LoopBack \/ CodecCall

BuildSpec == BuildInit /\ [][BuildNext]_vars

\* the ten names of the command catalog
Catalog ==
    {"heartbeat", "query_fw", "restart", "query_iccid", "voice_get",
     "query_power_bank", "rent", "eject", "voice_set", "set_server"}

\* the string is an integer: an optional sign and at least one digit
IsInteger(s) ==
    LET d == IF Len(s) > 0 /\ s[1] \in {43, 45} THEN SubSeq(s, 2, Len(s)) ELSE s
    IN  Len(d) > 0 /\ \A i \in 1..Len(d) : d[i] \in 48..57

\* the value of a string that is an integer
IntegerValue(s) ==
    IF s[1] = 45 THEN 0 - DecimalValue(SubSeq(s, 2, Len(s)), 1, 0)
    ELSE IF s[1] = 43 THEN DecimalValue(SubSeq(s, 2, Len(s)), 1, 0)
    ELSE DecimalValue(s, 1, 0)

\* the string decodes to exactly 4 bytes: 8 hexadecimal digits
IsToken(t) ==
    Len(t) = 8 /\ \A i \in 1..8 : t[i] \in (48..57) \cup (65..70) \cup (97..102)

\* the parameter validation of the catalog entry
ParamInRange(cmd, s) ==
    CASE cmd \in {"rent", "eject"} ->
           IsInteger(s) /\ IntegerValue(s) >= 1 /\ IntegerValue(s) <= 255
      [] cmd = "voice_set" ->
           IsInteger(s) /\ IntegerValue(s) >= 0 /\ IntegerValue(s) <= 15
      [] cmd = "set_server" -> IsInteger(s) /\ IntegerValue(s) > 0
      [] OTHER -> TRUE

CatalogOpcode(cmd) ==
    CASE cmd = "heartbeat" -> 97 [] cmd = "query_fw" -> 98
      [] cmd = "restart" -> 103 [] cmd = "query_iccid" -> 105
      [] cmd = "voice_get" -> 119 [] cmd = "query_power_bank" -> 100
      [] cmd = "rent" -> 101 [] cmd = "eject" -> 128
      [] cmd = "voice_set" -> 112 [] cmd = "set_server" -> 99

FrameSpec == (BuildInit \/ CodecInit) /\ [][BuildNext]_vars

\* the frames the gateway has produced: the one CreateCommand returned and
\* the reply HandleIncoming returned
Built == IF bpc \in {"built", "sent"} /\ bRes # Nil THEN {bRes} ELSE {}
Replied == IF cpc = "done" /\ cRes.resp # Nil THEN {cRes.resp} ELSE {}

C16_RoundTrip ==
    (bpc = "sent" /\ cpc = "done")
       => /\ ~cRes.panic
          /\ CodecData = bRes
          /\ validateChecksum(CodecData)
          /\ cRes.resp # Nil
          /\ cRes.resp[3] = CatalogOpcode(bCmd)
          /\ Slice(cRes.resp, 5, 9) = HexDecodeString(bToken).bytes
          /\ bCmd \in {"rent", "eject"} => cRes.resp[10] = bRes[10]

\* C16 witness: the set_server frame built for interval "300" went through
\* HandleIncoming and came back as a reply with opcode 0x63 and the token
C16_Witness ==
    /\ bpc = "sent" /\ cpc = "done" /\ bCmd = "set_server" /\ bSlot = Slot300
    /\ bToken = TokenHexOK
    /\ cRes.resp[3] = 99 /\ Slice(cRes.resp, 5, 9) = Token1

\* the replies a connection task has written to its connection, in order
OwnReplies(c) ==
    LET Own(e) == e.by = c IN SelectSeq(out[c], Own)

\* C17: the frames of one connection are processed strictly in arrival
\* order: a frame is read only by a task that is at its read, the task is
\* back at its read only when the frame it read last has been handled, its
\* reply (if it has one) written, and so the replies on the connection are
\* in the order of the frames that caused them.
C17_ArrivalOrder ==
    \A c \in Conns :
       /\ \A i \in 1..Len(OwnReplies(c)) :
             /\ OwnReplies(c)[i].k \in 1..reads[c]
             /\ i > 1 => OwnReplies(c)[i - 1].k < OwnReplies(c)[i].k
       /\ (pc[c] = "read" /\ reads[c] >= 1 /\ Incoming(c).resp # Nil)
             => /\ OwnReplies(c) # <<>>
                /\ OwnReplies(c)[Len(OwnReplies(c))]
                      = [by |-> c, k |-> reads[c], frame |-> Incoming(c).resp]
       /\ pc[c] \in {"handle", "lock", "lockwait", "register", "regstore", "write"}
             => \A i \in 1..Len(OwnReplies(c)) : OwnReplies(c)[i].k < reads[c]

\* C17 witness: connection 1 read the login of "ST1" and then the login of
\* "ST2", and its connection carries the reply of the first read followed by
\* the reply of the second
C17_Witness ==
    /\ pc[1] = "read" /\ reads[1] = 2 /\ stationID[1] = IdA
    /\ SubSeq(buf[1], 1, n[1]) = LoginFrame(IdB)
    /\ Len(OwnReplies(1)) = 2
    /\ OwnReplies(1)[1] = [by |-> 1, k |-> 1, frame |-> Reply(8, 96, Token1, <<1>>)]
    /\ OwnReplies(1)[2] = [by |-> 1, k |-> 2, frame |-> Reply(8, 96, Token1, <<1>>)]

\* the opcodes of the dispatch table and the total length each handler needs
DispatchTable == {96, 97, 98, 99, 100, 101, 102, 103, 105, 112, 119, 128}

MinLength(cmd) ==
    CASE cmd = 102 -> 18
      [] cmd \in {101, 128, 112, 99} -> 10
      [] OTHER -> 7

\* C18 as stated: for a frame that passes the checksum validation,
\* HandleIncoming returns a reply exactly when the opcode is in the dispatch
\* table and the handler's minimum total length is met (0x66: 18; 0x65,
\* 0x80, 0x70, 0x63: 10; the others: the header); otherwise there is no
\* reply and the identity is empty; only opcode 0x60 returns an identity.
C18_ReplyIff ==
    (cpc = "done" /\ cN >= 7 /\ CodecData[5] = xorChecksum(From(CodecData, 9)))
       => /\ ~cRes.panic
          /\ cRes.resp # Nil
                <=> CodecData[3] \in DispatchTable /\ cN >= MinLength(CodecData[3])
          /\ cRes.resp = Nil => cRes.id = <<>>
          /\ cRes.id # <<>> => CodecData[3] = 96

\* the same for the calls that return
C18_ReplyIffReturned ==
    (cpc = "done" /\ cN >= 7 /\ CodecData[5] = xorChecksum(From(CodecData, 9))
       /\ ~cRes.panic)
       => /\ cRes.resp # Nil
                <=> CodecData[3] \in DispatchTable /\ cN >= MinLength(CodecData[3])
          /\ cRes.resp = Nil => cRes.id = <<>>
          /\ cRes.id # <<>> => CodecData[3] = 96

\* the received bytes in a buffer that holds nothing else
FreshBuffer == CodecData \o [i \in 1..(BufCap - cN) |-> 0]

\* C19 as stated: HandleIncoming is a function of the n received bytes:
\* whatever the read buffer holds beyond position n from earlier reads, the
\* reply and the identity are those of the same n bytes in a fresh buffer
\* (frames of 7 or 8 bytes included).
C19_PureFunction ==
    cpc = "done" => cRes = HandleIncoming(FreshBuffer, cN)

\* the /send request of the task is over and was rejected: the station was
\* not found (or not looked up), or CreateCommand returned no frame
RejectedSend(h) ==
    /\ pc[h] = "done" /\ req[h].cmd # ""
    /\ \/ ~exists[h]
       \/ CreateCommand(req[h].cmd, req[h].token, req[h].slot) = Nil

\* C20: a rejected send request has no effect on stations: when the station
\* identity is not found in the registry, or CreateCommand returns no frame
\* (invalid token, unknown command, out-of-range parameter),
\* handleSendCommand answers 400, has written no byte to any station
\* connection, and none of its steps changes the registry or closes a
\* connection.
C20_RejectedSendNoEffect ==
    /\ [](\A h \in Https :
            RejectedSend(h)
               => /\ status[h] = 400
                  /\ \A c \in Conns : \A i \in 1..Len(out[c]) : out[c][i].by # h)
    /\ [][\A h \in Https :
            pc'[h] # pc[h] => connections' = connections /\ closed' = closed]_vars

\* C20 witness: "ST1" is registered to connection 1, a /send for it with
\* slot "300" found the connection, got no frame from CreateCommand and was
\* answered 400; the connection carries the login reply and nothing else
C20_Witness ==
    /\ RejectedSend(101) /\ exists[101] /\ conn[101] = 1
    /\ req[101].slot = Slot300 /\ status[101] = 400
    /\ MapGet(connections, IdA) = 1 /\ Len(out[1]) = 1 /\ out[1][1].by = 1

\* the buffer of the call with the length field of the frame set to v
WithLength(v) == PutUint16(v) \o From(cArr, 2)

\* the value of the length field of the received frame
PackLen == Uint16(CodecData[1], CodecData[2])

\* C21: a frame whose length field differs from the number of bytes
\* received is not rejected: HandleIncoming returns for it the reply and
\* the identity it returns for the same bytes with a correct length field
\* (the number of bytes received, which is what the code compares the field
\* with, or that number minus 2, which is what the frames of the gateway
\* carry), except that the echo of a heartbeat carries the length field
\* that was received.
C21_LengthMismatch ==
    (cpc = "done" /\ cN >= 7 /\ PackLen # cN)
       => \A v \in {cN, cN - 2} :
            LET fixed == HandleIncoming(WithLength(v), cN)
            IN  IF CodecData[3] = 97 /\ fixed.resp # Nil
                THEN /\ ~cRes.panic /\ ~fixed.panic
                     /\ cRes.id = fixed.id
                     /\ cRes.resp = PutUint16(PackLen) \o From(fixed.resp, 2)
                ELSE cRes = fixed

\* C21 witness: 21 bytes of a login frame whose length field says 22 were
\* received, and the login reply and the identity "ST1" came back
C21_Witness ==
    /\ CodecValid(96) /\ cN = 21 /\ PackLen = 22
    /\ cRes.resp = Reply(8, 96, Token1, <<1>>) /\ cRes.id = IdA

\* the call returned a reply that HandleIncoming built (not the heartbeat
\* echo, which is the received frame)
BuiltReply == cpc = "done" /\ ~cRes.panic /\ cRes.resp # Nil /\ CodecData[3] # 97

\* the layout of the reply without its token: the opcode of the request,
\* version 0x01, the length field 7 + len(payload), the checksum the XOR of
\* the payload; rent and eject: slot, 0x01 and 8 bytes of identifier
ReplyLayout(r) ==
    /\ Len(r) >= 9
    /\ r[3] = CodecData[3]
    /\ r[4] = 1
    /\ Uint16(r[1], r[2]) = 7 + Len(From(r, 9))
    /\ r[5] = xorFrom(From(r, 9), 1, 0)
    /\ CodecData[3] \in {101, 128}
          => /\ Len(From(r, 9)) = 10
             /\ r[10] = CodecData[10]
             /\ r[11] = 1
             /\ Len(From(r, 11)) = 8

\* C22 as stated: every reply HandleIncoming builds (all opcodes other than
\* the heartbeat echo) carries the request's opcode at offset 2, version
\* 0x01, the 4 token bytes of the request at offsets 5..8, a length field
\* of 7 + len(reply payload) and a checksum byte that is the XOR of the
\* reply payload; the rent and eject replies have a 10-byte payload: the
\* slot byte of the request, 0x01 and an identifier of exactly 8 bytes.
C22_ReplyLayout ==
    BuiltReply
       => /\ ReplyLayout(cRes.resp)
          /\ cN >= 9
          /\ Slice(cRes.resp, 5, 9) = Slice(CodecData, 5, 9)

\* the same for the requests that hold their 4 token bytes
C22_ReplyLayoutOfWholeHeader ==
    (BuiltReply /\ cN >= 9)
       => /\ ReplyLayout(cRes.resp)
          /\ Slice(cRes.resp, 5, 9) = Slice(CodecData, 5, 9)

\* and for the shorter ones: every part of the layout but the token
C22_ReplyLayoutOfCutHeader ==
    (BuiltReply /\ cN < 9)
       => /\ ReplyLayout(cRes.resp)
          /\ Slice(cRes.resp, 5, cN) = Slice(CodecData, 5, cN)
          /\ Slice(cRes.resp, cN, 9) = Slice(cArr, cN, 9)

\* C23: in every reachable state at most one registry key maps to any
\* given connection, so the scan of the deferred cleanup, which stops at
\* the first entry it finds, leaves no entry of the closing connection.
C23_OneKeyPerConnection ==
    /\ [](\A c \in Conns : Cardinality(KeysOf(connections, c)) <= 1)
    /\ [][\A c \in Conns :
            DeregisteredStep(c) => KeysOf(connections', c) = {}]_vars

\* C23 witness: connection 1 registered as "ST1", received a second login
\* and answered it, and has terminated; no key maps to it, while "ST2" is
\* still registered to connection 2
C23_Witness ==
    /\ pc[1] = "done" /\ stationID[1] = IdA /\ reads[1] = 2 /\ ~panicking[1]
    /\ Len(OwnReplies(1)) = 2
    /\ OwnReplies(1)[2].frame = Reply(8, 96, Token1, <<1>>)
    /\ KeysOf(connections, 1) = {}
    /\ MapGet(connections, IdB) = 2

(***************************************************************************)
(* The gateway of FairSpec, its HTTP request a /send or a /stations, under *)
(* the same fairness.  The listing is taken in two steps, the arrival of   *)
(* the request and its mu.RLock(), so that a listing that waits for the    *)
(* lock is a state of its own.                                             *)
(***************************************************************************)
\* handleListStations is entered
ListStart(l) ==
    /\ ~crashed /\ pc[l] = "idle"
    /\ pc' = [pc EXCEPT ![l] = "lrlock"]
    /\ UNCHANGED codecVars
    /\ UNCHANGED <<connections, seqMap, muVars, connVars, crashed, out, sendVars>>

\* mu.RLock()
ListAcquire(l) ==
    /\ ~crashed /\ pc[l] = "lrlock"
    /\ RLock(l)
    /\ pc' = [pc EXCEPT ![l] = "listing"]
    /\ UNCHANGED codecVars
    /\ UNCHANGED <<connections, seqMap, connVars, crashed, out, sendVars>>

ListStep(l) == ListStart(l) \/ ListAcquire(l) \/ ListDone(l)

SendStep(h) ==
    \/ SendStart(h) \/ SendRLock(h) \/ SendLookup(h) \/ SendBuild(h)
    \/ SendIdsRLock(h) \/ SendIdsDone(h) \/ SendWrite(h)

LockNext ==
    \/ \E c \in Conns : OneFrameStep(c)
    \/ \E h \in {101} : SendStep(h) \/ ListStep(h)

\* the steps the task of a started listing takes on its own
ListLocalStep(l) == ListAcquire(l) \/ ListDone(l)

LockFairness ==
    /\ \A c \in Conns : SF_vars(ConnLocalStep(c))
    /\ \A h \in {101} : SF_vars(HttpLocalStep(h) \/ ListLocalStep(h))

LockSpec == Init /\ [][LockNext]_vars /\ LockFairness

\* the task is at a call of mu.Lock() or mu.RLock() that has not returned
AtLockCall(t) == pc[t] \in {"lock", "dlock", "rlock", "ids", "lrlock"}
WaitsForReaders(t) == pc[t] \in {"lockwait", "dlockwait"}
Waiting(t) == ~crashed /\ (AtLockCall(t) \/ WaitsForReaders(t))

\* the call has returned and the task is in its critical section
Inside(t) ==
    pc[t] \in {"register", "regstore", "deregister", "deregstore",
               "lookup", "idsread", "listing"}

CommandWritten(h) == pc[h] = "send" /\ pc'[h] = "done" /\ status'[h] = 200

\* the cleanup of the connection task has not begun
Serving(c) == ~closed[c] /\ pc[c] \notin {"dlock", "dlockwait", "deregister",
                                         "deregstore", "done"}

\* C25 as stated: handleSendCommand writes a command for identity X only to
\* the connection that the registry maps X to at the moment of the write,
\* under every interleaving with a close of that connection or a
\* superseding login for X.
C25_Original ==
    [][\A h \in Https :
         CommandWritten(h) => MapGet(connections, req[h].stationID) = conn[h]]_vars

\* C25 amended: handleSendCommand writes a command for identity X to the
\* connection that the registry mapped X to at the moment of its lookup,
\* and to no other; when the write succeeds that connection is open, its
\* cleanup has not begun and it is a connection that logged in as X, but
\* the registry may by then map X to a connection that logged in as X
\* later (or, that one closed, to none); when the write fails nothing is
\* written.
C25_WriteToLookedUp ==
    [][\A h \in Https :
         /\ (pc[h] = "lookup" /\ pc'[h] = "found")
               => conn'[h] = MapGet(connections, req[h].stationID)
         /\ pc[h] \in {"found", "send"} => conn'[h] = conn[h]
         /\ CommandWritten(h)
               => /\ out' = [out EXCEPT ![conn[h]] =
                               Append(out[conn[h]],
                                      [by |-> h, k |-> 0,
                                       frame |-> CreateCommand(req[h].cmd,
                                                               req[h].token,
                                                               req[h].slot)])]
                  /\ Serving(conn[h])
                  /\ stationID[conn[h]] = req[h].stationID
                  /\ \A c \in Conns :
                        MapGet(connections, req[h].stationID) = c
                           => stationID[c] = req[h].stationID
         /\ (pc[h] = "send" /\ pc'[h] = "done" /\ status'[h] # 200)
               => out' = out]_vars

\* C25 witness: the rent command for "ST1" was written to connection 1,
\* which the lookup had found, while the registry maps "ST1" to connection
\* 2, which logged in as "ST1" later
C25_Witness ==
    /\ pc[101] = "done" /\ status[101] = 200 /\ conn[101] = 1
    /\ req[101].stationID = IdA
    /\ Len(out[1]) >= 1 /\ out[1][Len(out[1])].by = 101
    /\ MapGet(connections, IdA) = 2 /\ ~closed[1]

\* CreateCommand has returned a set_server frame
SetServerBuilt == bpc \in {"built", "sent"} /\ bCmd = "set_server" /\ bRes # Nil

\* C26 as stated: for set_server, every interval that CreateCommand accepts
\* is encoded without loss: the last payload byte of the frame equals the
\* requested interval, which therefore never appears on the wire as 0 or
\* as another value.
C26_IntervalEncoded ==
    SetServerBuilt
       => /\ IsInteger(bSlot)
          /\ bRes[Len(bRes)] = IntegerValue(bSlot)
          /\ bRes[Len(bRes)] # 0

\* what the frame holds: the low 8 bits of the interval
C26_IntervalLowByte ==
    SetServerBuilt
       => IsInteger(bSlot) /\ bRes[Len(bRes)] = IntegerValue(bSlot) % 256

=============================================================================
